---------------------------- MODULE Spec2Model ----------------------------
(***************************************************************************)
(* A state-machine model of Geant4phspCutter.cc: one run of main(), which *)
(* opens an IAEA phase-space source, copies its header, streams its       *)
(* records through the geometric filter, writes the accepted ones, and    *)
(* updates the output header before closing both sources.                 *)
(*                                                                         *)
(* IAEA_Float values are modelled as exact fractions <<num, den>> with    *)
(* den > 0; the arithmetic of the filter is carried out on them in the    *)
(* order the code does it.  Rounding, infinities and NaN of the float     *)
(* type are outside the model.                                            *)
(***************************************************************************)
EXTENDS Integers, Sequences, FiniteSets, TLC

(***************************************************************************)
(* Bounds of the model.                                                    *)
(***************************************************************************)
\* longest input record stream drawn from the small slot alphabet
MaxLen == 3
\* largest value of ERROR_THRESHOLD tried
MaxThreshold == 1

(***************************************************************************)
(* Fractions.                                                              *)
(***************************************************************************)
Frac(n, d) == <<n, d>>
Whole(n) == <<n, 1>>

\* a - b
FSub(a, b) == <<a[1] * b[2] - b[1] * a[2], a[2] * b[2]>>
\* a + b
FAdd(a, b) == <<a[1] * b[2] + b[1] * a[2], a[2] * b[2]>>
\* a * b
FMul(a, b) == <<a[1] * b[1], a[2] * b[2]>>
\* a / b, used only with b > 0 (the guard w > 0 of the filter)
FDiv(a, b) == <<a[1] * b[2], a[2] * b[1]>>
\* a > 0
FPos(a) == a[1] * a[2] > 0
\* a < b, a >= b, a <= b for positive denominators
FLt(a, b) == a[1] * b[2] < b[1] * a[2]
FGeq(a, b) == a[1] * b[2] >= b[1] * a[2]
FLeq(a, b) == a[1] * b[2] <= b[1] * a[2]

(***************************************************************************)
(* Filter parameters (units: cm).                                          *)
(***************************************************************************)
Z_PLANE == Whole(100)
X_MIN == Whole(-7)
X_MAX == Whole(7)
Y_MIN == Whole(-7)
Y_MAX == Whole(7)


(***************************************************************************)
(* Particle records: the values iaea_get_particle hands back and           *)
(* iaea_write_particle takes.                                              *)
(***************************************************************************)
Particle(n, p, e, wgt, px, py, pz, du, dv, dw) ==
    [n_stat |-> n, partType |-> p, E |-> e, wt |-> wgt,
     x |-> px, y |-> py, z |-> pz, u |-> du, v |-> dv, w |-> dw]

\* the locals n_stat, partType, E, wt, x, y, z, u, v, w before the first read
Unassigned ==
    Particle(0, 0, Whole(0), Whole(0), Whole(0), Whole(0), Whole(0),
             Whole(0), Whole(0), Whole(0))

\* a slot of the input stream whose read fails: the library reports n_stat = -1
Unreadable ==
    Particle(-1, 0, Whole(0), Whole(0), Whole(0), Whole(0), Whole(0),
             Whole(0), Whole(0), Whole(0))

\* z = 50, w = 1, u = 0.1: projected to (5, 0), inside the rectangle
PInside ==
    Particle(1, 1, Whole(6), Whole(1), Whole(0), Whole(0), Whole(50),
             Frac(1, 10), Whole(0), Whole(1))
\* the same with u = 1: projected to (50, 0), outside
POutside ==
    Particle(0, 2, Whole(6), Frac(1, 2), Whole(0), Whole(0), Whole(50),
             Whole(1), Whole(0), Whole(1))
\* moving backwards (w < 0) from a point inside the rectangle
PBackward ==
    Particle(1, 1, Whole(18), Whole(1), Whole(0), Whole(0), Whole(150),
             Whole(0), Whole(0), Whole(-1))
\* beyond the plane, raw (x, y) inside although a projection would leave it
PBeyond ==
    Particle(2, 3, Whole(6), Whole(1), Whole(2), Whole(2), Whole(150),
             Whole(1), Whole(0), Whole(1))

\* the slots the bounded streams are drawn from
Alphabet == {Unreadable, PInside, POutside, PBeyond}

\* the geometry grid: every combination of these coordinates and cosines
GridX == {-12, -7, 0, 2, 8}
GridY == {-7, 0, 2, 8}
GridZ == {50, 100, 150}
GridU == {Frac(1, 10), Whole(1)}
GridV == {Whole(0), Frac(1, 10)}
GridW == {Whole(-1), Whole(0), Frac(1, 2), Whole(1)}

GridParticles ==
    {Particle(1, 1, Whole(6), Whole(1), Whole(px), Whole(py), Whole(pz),
              du, dv, dw) :
        px \in GridX, py \in GridY, pz \in GridZ,
        du \in GridU, dv \in GridV, dw \in GridW}

\* all sequences over S of length at most n
RECURSIVE SeqsUpTo(_, _)
SeqsUpTo(S, n) ==
    IF n = 0 THEN {<<>>}
    ELSE LET shorter == SeqsUpTo(S, n - 1)
         IN  shorter \cup {Append(q, e) : q \in {t \in shorter : Len(t) = n - 1}, e \in S}

(***************************************************************************)
(* The input header, as far as main() reads it.                            *)
(***************************************************************************)
Header(maxp, orig, nf, ni) ==
    [max_particles |-> maxp, orig_histories |-> orig,
     extra_floats |-> nf, extra_ints |-> ni]

NoHeader == Header(0, 0, 0, 0)

\* an input header declaring maxp particles: 9 original histories, and
\* 2 extra floats and 1 extra integer stored with every record
InputHeader(maxp) == Header(maxp, 9, 2, 1)

(***************************************************************************)
(* The inputs of a run: the record stream of the input file, the particle  *)
(* count its header declares, and ERROR_THRESHOLD.                         *)
(***************************************************************************)
Input(s, maxp, t) == [stream |-> s, max_particles |-> maxp, threshold |-> t]

StreamInputs ==
    {Input(s, maxp, t) :
        s \in SeqsUpTo(Alphabet, MaxLen),
        maxp \in -1 .. (MaxLen + 1),
        t \in 0 .. MaxThreshold}

\* one record of the geometry grid, header declaring one record more
GridInputs == {Input(<<p>>, 2, 0) : p \in GridParticles}

\* five records, the first and third pass the filter, the second is unreadable
ScenarioInputs ==
    {Input(<<PInside, Unreadable, PBeyond, POutside, PBackward>>, 6, 10)}

Inputs == StreamInputs \cup GridInputs \cup ScenarioInputs

(***************************************************************************)
(* State.                                                                  *)
(***************************************************************************)
VARIABLES
    pc,                \* position of main()
    exitCode,          \* value returned by main(), -1 while running
    setupError,        \* the setup step whose failure was reported, or "none"
    stream,            \* record slots of the input file
    inHeader,          \* header of the input file
    errorThreshold,    \* ERROR_THRESHOLD
    srcOpened,         \* iaea_new_source(&src) succeeded
    destOpened,        \* iaea_new_source(&dest) succeeded
    srcDestroys,       \* iaea_destroy_source(&src) calls
    destDestroys,      \* iaea_destroy_source(&dest) calls
    srcPos,            \* records the source has been asked for
    destHeader,        \* header of the output source
    headerUpdate,      \* outcome of iaea_update_header: "none", "ok", "failed"
    output,            \* records of the output file
    expected,          \* locals of main()
    expectedRecords,
    i,
    count,
    errorCount,
    acceptedHistories,
    acceptedParticles,
    cur,               \* n_stat, partType, E, wt, x, y, z, u, v, w
    calls,             \* library calls made so far, in order
    firstRun,          \* what an earlier run on the same files left behind
    writeFaults        \* reader positions at which a write did not store

vars == <<pc, exitCode, setupError, stream, inHeader, errorThreshold, srcOpened, destOpened,
          srcDestroys, destDestroys, srcPos, destHeader, headerUpdate, output,
          expected, expectedRecords, i, count, errorCount, acceptedHistories,
          acceptedParticles, cur, calls, firstRun, writeFaults>>

\* what lies outside a single run with a working writer
outside == <<firstRun, writeFaults>>

env == <<stream, inHeader, errorThreshold>>
locals == <<expected, expectedRecords, i, count, errorCount, acceptedHistories,
            acceptedParticles, cur>>

\* no earlier run
NoRun == [done |-> FALSE, output |-> <<>>, count |-> 0, accepted |-> 0, errors |-> 0]

\* result codes a library call may leave in res
ResCodes == {-1, 0, 1}

Init ==
    /\ \E inp \in Inputs :
          /\ stream = inp.stream
          /\ inHeader = InputHeader(inp.max_particles)
          /\ errorThreshold = inp.threshold
    /\ pc = "Start"
    /\ exitCode = -1
    /\ setupError = "none"
    /\ srcOpened = FALSE
    /\ destOpened = FALSE
    /\ srcDestroys = 0
    /\ destDestroys = 0
    /\ srcPos = 0
    /\ destHeader = NoHeader
    /\ headerUpdate = "none"
    /\ output \in {<<>>, <<POutside>>}     \* a stale output file may exist
    /\ expected = 0
    /\ expectedRecords = 0
    /\ i = 0
    /\ count = 0
    /\ errorCount = 0
    /\ acceptedHistories = 0
    /\ acceptedParticles = 0
    /\ cur = Unassigned
    /\ calls = <<>>
    /\ firstRun = NoRun
    /\ writeFaults = <<>>


(***************************************************************************)
(* Pure parts of main().                                                   *)
(***************************************************************************)
\* a bound that takes the declared count as it is
ExpectedAsDeclared(e) == e

\* the header is assumed to count one record too many
ExpectedRecords(e) == IF e > 0 THEN e - 1 ELSE e

\* a loop condition that allows one iteration more
LoopContinuesInclusive(idx, bound) == idx <= bound

\* the loop condition
LoopContinues(idx, bound) == idx < bound

\* what iaea_get_particle leaves in the locals: the next slot of the stream,
\* or n_stat = -1 with the other locals untouched when the read fails
\* (an unreadable slot, or the end of the stream)
GetParticle(old, s, pos) ==
    LET slot == IF pos < Len(s) THEN s[pos + 1] ELSE Unreadable
    IN  IF slot.n_stat = -1 THEN [old EXCEPT !.n_stat = -1] ELSE slot

ReadFailed(p) == p.n_stat = -1

\* a budget test that gives up one failure sooner
TooManyErrorsEarly(errors, threshold) == errors >= threshold

\* a budget test that tolerates one failure more
TooManyErrorsLate(errors, threshold) == errors > threshold + 1

TooManyErrors(errors, threshold) == errors > threshold

\* a projection that is applied beyond the plane as well
ProjectedAlways(p) ==
    LET t == FDiv(FSub(Z_PLANE, p.z), p.w)
    IN  <<FAdd(p.x, FMul(p.u, t)), FAdd(p.y, FMul(p.v, t))>>

\* (newX, newY): the position recalculated at the Z_PLANE level
Projected(p) ==
    IF FLt(p.z, Z_PLANE)
    THEN LET t == FDiv(FSub(Z_PLANE, p.z), p.w)
         IN  <<FAdd(p.x, FMul(p.u, t)), FAdd(p.y, FMul(p.v, t))>>
    ELSE <<p.x, p.y>>

\* a rectangle test that excludes the bounds
InRectangleStrict(newX, newY) ==
    /\ FLt(X_MIN, newX)
    /\ FLt(newX, X_MAX)
    /\ FLt(Y_MIN, newY)
    /\ FLt(newY, Y_MAX)

InRectangle(newX, newY) ==
    /\ FGeq(newX, X_MIN)
    /\ FLeq(newX, X_MAX)
    /\ FGeq(newY, Y_MIN)
    /\ FLeq(newY, Y_MAX)

\* a direction test that lets w = 0 through
MovesForwardOrStill(p) == p.w[1] * p.w[2] >= 0

MovesForward(p) == FPos(p.w)

\* the filter: the record is written iff this holds
Accepted(p) ==
    /\ MovesForward(p)
    /\ InRectangle(Projected(p)[1], Projected(p)[2])

\* a write that stores the projected position
WrittenProjected(p, newX, newY) == [p EXCEPT !.x = newX, !.y = newY]

\* the record handed to iaea_write_particle
WrittenRecord(p, newX, newY) == p

\* a writer that puts the record in front of the others
WriteParticleInFront(out, p) == <<p>> \o out

\* iaea_write_particle appends the record to the output file; main() does
\* not look at any status the call leaves behind, and the writer of this
\* model always stores the record
WriteParticle(out, p) == Append(out, p)

\* a pass that forgets to count the record
CountNotAdvanced(c) == c

\* count after a record has been processed
CountAfter(c) == c + 1

\* a pass that counts the failed read as well
CountAttempt(c) == c + 1

\* count after a failed read: the continue skips count++
CountAfterFailure(c) == c

\* acceptedHistories / acceptedParticles after a record has been written
AcceptedAfter(a) == a + 1

\* a header-copy failure path that leaves the output source open
CopyHeaderFailureLeak == <<"src">>

\* the sources destroyed before return 1 on each failure path
CheckFailureCleanup == <<"src">>
OpenOutputFailureCleanup == <<"src">>
CopyHeaderFailureCleanup == <<"src", "dest">>

\* the number of occurrences of h in the sequence q
Occurrences(q, h) == Cardinality({k \in 1 .. Len(q) : q[k] = h})

DestroyCalls(handles) == [k \in 1 .. Len(handles) |-> "destroy_source(" \o handles[k] \o ")"]

(***************************************************************************)
(* Steps of main().                                                        *)
(***************************************************************************)
\* a failure branch that lacks its return and falls through to the next step
FallThrough(step) ==
    CASE step = "CheckArgs" -> "OpenInput"
      [] step = "OpenInput" -> "CheckFileSize"
      [] step = "CheckFileSize" -> "OpenOutput"
      [] step = "OpenOutput" -> "CopyHeader"
      [] OTHER -> "SetExtraNumbers"

\* where main() is after the failure of a setup step: it has returned
AfterFailure(step) == "Done"

\* report the failure of a setup step, destroy the given sources and return 1
Bail(step, handles) ==
    /\ setupError' = step
    /\ srcDestroys' = srcDestroys + Occurrences(handles, "src")
    /\ destDestroys' = destDestroys + Occurrences(handles, "dest")
    /\ exitCode' = 1
    /\ pc' = AfterFailure(step)

\* a start that leaves existing output files in place
KeepOutputFiles(out) == out

\* removeOutputFiles: the output file holds no record afterwards
RemoveOutputFiles(out) == <<>>

\* argument check, removal of stale output files
CheckArgs ==
    /\ pc = "Start"
    /\ \E argc \in {2, 3} :
          IF argc < 3
          THEN /\ Bail("CheckArgs", <<>>)
               /\ UNCHANGED output
          ELSE /\ output' = RemoveOutputFiles(output)
               /\ pc' = "OpenInput"
               /\ UNCHANGED <<exitCode, setupError, srcDestroys, destDestroys>>
    /\ UNCHANGED <<env, outside, locals, srcOpened, destOpened, srcPos, destHeader,
                   headerUpdate, calls>>

OpenInput ==
    /\ pc = "OpenInput"
    /\ \E res \in ResCodes :
          IF res < 0
          THEN /\ Bail("OpenInput", <<>>)
               /\ calls' = Append(calls, "new_source(src)")
               /\ UNCHANGED srcOpened
          ELSE /\ srcOpened' = TRUE
               /\ calls' = Append(calls, "new_source(src)")
               /\ pc' = "CheckFileSize"
               /\ UNCHANGED <<exitCode, setupError, srcDestroys, destDestroys>>
    /\ UNCHANGED <<env, outside, locals, destOpened, srcPos, destHeader, headerUpdate, output>>

CheckFileSize ==
    /\ pc = "CheckFileSize"
    /\ \E res \in ResCodes :
          IF res # 0
          THEN /\ Bail("CheckFileSize", CheckFailureCleanup)
               /\ calls' = Append(calls, "check_file_size_byte_order")
                              \o DestroyCalls(CheckFailureCleanup)
          ELSE /\ calls' = Append(calls, "check_file_size_byte_order")
               /\ pc' = "OpenOutput"
               /\ UNCHANGED <<exitCode, setupError, srcDestroys, destDestroys>>
    /\ UNCHANGED <<env, outside, locals, srcOpened, destOpened, srcPos, destHeader,
                   headerUpdate, output>>

OpenOutput ==
    /\ pc = "OpenOutput"
    /\ \E res \in ResCodes :
          IF res < 0
          THEN /\ Bail("OpenOutput", OpenOutputFailureCleanup)
               /\ calls' = Append(calls, "new_source(dest)")
                              \o DestroyCalls(OpenOutputFailureCleanup)
               /\ UNCHANGED destOpened
          ELSE /\ destOpened' = TRUE
               /\ calls' = Append(calls, "new_source(dest)")
               /\ pc' = "CopyHeader"
               /\ UNCHANGED <<exitCode, setupError, srcDestroys, destDestroys>>
    /\ UNCHANGED <<env, outside, locals, srcOpened, srcPos, destHeader, headerUpdate, output>>

CopyHeader ==
    /\ pc = "CopyHeader"
    /\ \E res \in ResCodes :
          IF res < 0
          THEN /\ Bail("CopyHeader", CopyHeaderFailureCleanup)
               /\ calls' = Append(calls, "copy_header")
                              \o DestroyCalls(CopyHeaderFailureCleanup)
               /\ UNCHANGED destHeader
          ELSE /\ destHeader' = inHeader
               /\ calls' = Append(calls, "copy_header")
               /\ pc' = "SetExtraNumbers"
               /\ UNCHANGED <<exitCode, setupError, srcDestroys, destDestroys>>
    /\ UNCHANGED <<env, outside, locals, srcOpened, destOpened, srcPos, headerUpdate, output>>

\* a header left with the extra-data counts it was copied with
KeepExtraNumbers(h) == h

\* iaea_set_extra_numbers(&dest, &zero, &zero): the header with both
\* extra-data counts set to zero
ZeroExtraNumbers(h) == [h EXCEPT !.extra_floats = 0, !.extra_ints = 0]

\* disable extra data in the output header, zero the counters
SetExtraNumbers ==
    /\ pc = "SetExtraNumbers"
    /\ destHeader' = ZeroExtraNumbers(destHeader)
    /\ acceptedHistories' = 0
    /\ acceptedParticles' = 0
    /\ count' = 0
    /\ errorCount' = 0
    /\ calls' = Append(calls, "set_extra_numbers")
    /\ pc' = "GetMaxParticles"
    /\ UNCHANGED <<env, outside, exitCode, setupError, srcOpened, destOpened, srcDestroys, destDestroys,
                   srcPos, headerUpdate, output, expected, expectedRecords, i, cur>>

GetMaxParticles ==
    /\ pc = "GetMaxParticles"
    /\ expected' = inHeader.max_particles
    /\ expectedRecords' = ExpectedRecords(inHeader.max_particles)
    /\ i' = 0
    /\ calls' = Append(calls, "get_max_particles")
    /\ pc' = "Loop"
    /\ UNCHANGED <<env, outside, exitCode, setupError, srcOpened, destOpened, srcDestroys, destDestroys,
                   srcPos, destHeader, headerUpdate, output, count, errorCount,
                   acceptedHistories, acceptedParticles, cur>>

\* one iteration of the particle reading loop
LoopIteration ==
    /\ pc = "Loop"
    /\ LoopContinues(i, expectedRecords)
    /\ LET p == GetParticle(cur, stream, srcPos)
           new == Projected(p)
       IN  /\ cur' = p
           /\ srcPos' = srcPos + 1
           /\ IF ReadFailed(p)
              THEN /\ errorCount' = errorCount + 1
                   /\ IF TooManyErrors(errorCount + 1, errorThreshold)
                      THEN /\ pc' = "SetTotal"
                           /\ i' = i
                      ELSE /\ pc' = "Loop"
                           /\ i' = i + 1
                   /\ calls' = Append(calls, "get_particle")
                   /\ count' = CountAfterFailure(count)
                   /\ UNCHANGED <<output, acceptedHistories, acceptedParticles>>
              ELSE /\ IF Accepted(p)
                      THEN /\ output' = WriteParticle(output, WrittenRecord(p, new[1], new[2]))
                           /\ acceptedHistories' = AcceptedAfter(acceptedHistories)
                           /\ acceptedParticles' = AcceptedAfter(acceptedParticles)
                           /\ calls' = calls \o <<"get_particle", "write_particle">>
                      ELSE /\ calls' = Append(calls, "get_particle")
                           /\ UNCHANGED <<output, acceptedHistories, acceptedParticles>>
                   /\ count' = CountAfter(count)
                   /\ i' = i + 1
                   /\ pc' = "Loop"
                   /\ UNCHANGED errorCount
    /\ UNCHANGED <<env, outside, exitCode, setupError, srcOpened, destOpened, srcDestroys, destDestroys,
                   destHeader, headerUpdate, expected, expectedRecords>>

\* the loop condition fails
LoopExit ==
    /\ pc = "Loop"
    /\ ~LoopContinues(i, expectedRecords)
    /\ pc' = "SetTotal"
    /\ UNCHANGED <<env, outside, locals, exitCode, setupError, srcOpened, destOpened, srcDestroys,
                   destDestroys, srcPos, destHeader, headerUpdate, output, calls>>

\* a finalization that declares the records processed instead
TotalFromProcessed(histories, processed) == processed

\* the value handed to iaea_set_total_original_particles
TotalOriginalParticles(histories, processed) == histories

SetTotal ==
    /\ pc = "SetTotal"
    /\ destHeader' = [destHeader EXCEPT !.orig_histories =
                         TotalOriginalParticles(acceptedHistories, count)]
    /\ calls' = Append(calls, "set_total_original_particles")
    /\ pc' = "UpdateHeader"
    /\ UNCHANGED <<env, outside, locals, exitCode, setupError, srcOpened, destOpened, srcDestroys,
                   destDestroys, srcPos, headerUpdate, output>>

\* iaea_update_header, its outcome reported, and the output size diagnostics
\* a failed header update taken as the end of the run
ReturnOnUpdateFailure(res) == IF res < 0 THEN "Done" ELSE "DestroySrc"

\* where main() goes on after iaea_update_header: both outcomes are only
\* reported, and the sources are closed next
AfterUpdateHeader(res) == "DestroySrc"

UpdateHeader ==
    /\ pc = "UpdateHeader"
    /\ \E res \in ResCodes :
          /\ headerUpdate' = IF res < 0 THEN "failed" ELSE "ok"
          /\ pc' = AfterUpdateHeader(res)
    /\ calls' = Append(calls, "update_header")
    /\ UNCHANGED <<env, outside, locals, exitCode, setupError, srcOpened, destOpened, srcDestroys,
                   destDestroys, srcPos, destHeader, output>>

DestroySrc ==
    /\ pc = "DestroySrc"
    /\ srcDestroys' = srcDestroys + 1
    /\ calls' = Append(calls, "destroy_source(src)")
    /\ pc' = "DestroyDest"
    /\ UNCHANGED <<env, outside, locals, exitCode, setupError, srcOpened, destOpened, destDestroys,
                   srcPos, destHeader, headerUpdate, output>>

\* a run that reports an error-budget abort as a failure
ExitAbortAsFailure(aborted) == IF aborted THEN 1 ELSE 0

\* the value main() returns at its end, whether or not the loop was aborted
ExitAfterPass(aborted) == 0

\* the last destroy and return 0
DestroyDest ==
    /\ pc = "DestroyDest"
    /\ destDestroys' = destDestroys + 1
    /\ calls' = Append(calls, "destroy_source(dest)")
    /\ exitCode' = ExitAfterPass(errorCount > errorThreshold)
    /\ pc' = "Done"
    /\ UNCHANGED <<env, outside, locals, setupError, srcOpened, destOpened, srcDestroys,
                   srcPos, destHeader, headerUpdate, output>>

Next ==
    \/ CheckArgs
    \/ OpenInput
    \/ CheckFileSize
    \/ OpenOutput
    \/ CopyHeader
    \/ SetExtraNumbers
    \/ GetMaxParticles
    \/ LoopIteration
    \/ LoopExit
    \/ SetTotal
    \/ UpdateHeader
    \/ DestroySrc
    \/ DestroyDest

Spec == Init /\ [][Next]_vars

\* the program is started again on the same input and output files, with
\* the same filter parameters, after a run that got to its end
RunAgain ==
    /\ pc = "Done"
    /\ exitCode = 0
    /\ ~firstRun.done
    /\ firstRun' = [done |-> TRUE, output |-> output, count |-> count,
                    accepted |-> acceptedParticles, errors |-> errorCount]
    /\ pc' = "Start"
    /\ exitCode' = -1
    /\ setupError' = "none"
    /\ srcOpened' = FALSE
    /\ destOpened' = FALSE
    /\ srcDestroys' = 0
    /\ destDestroys' = 0
    /\ srcPos' = 0
    /\ destHeader' = NoHeader
    /\ headerUpdate' = "none"
    /\ expected' = 0
    /\ expectedRecords' = 0
    /\ i' = 0
    /\ count' = 0
    /\ errorCount' = 0
    /\ acceptedHistories' = 0
    /\ acceptedParticles' = 0
    /\ cur' = Unassigned
    /\ calls' = <<>>
    /\ UNCHANGED <<env, output, writeFaults>>

NextTwice ==
    \/ Next
    \/ RunAgain

\* two runs in a row
TwiceSpec == Init /\ [][NextTwice]_vars

\* an iteration of the loop in which iaea_write_particle does not store the
\* record (a fault of the output storage): the call returns, main() looks
\* at no status of it, and the statements after the call run as ever
WriteFaultIteration ==
    /\ pc = "Loop"
    /\ LoopContinues(i, expectedRecords)
    /\ LET p == GetParticle(cur, stream, srcPos)
       IN  /\ ~ReadFailed(p)
           /\ Accepted(p)
           /\ cur' = p
           /\ srcPos' = srcPos + 1
           /\ output' = output
           /\ writeFaults' = Append(writeFaults, srcPos + 1)
           /\ acceptedHistories' = AcceptedAfter(acceptedHistories)
           /\ acceptedParticles' = AcceptedAfter(acceptedParticles)
           /\ calls' = calls \o <<"get_particle", "write_particle">>
           /\ count' = CountAfter(count)
           /\ i' = i + 1
           /\ pc' = "Loop"
    /\ UNCHANGED <<env, firstRun, exitCode, setupError, srcOpened, destOpened,
                   srcDestroys, destDestroys, destHeader, headerUpdate, expected,
                   expectedRecords, errorCount>>

NextFaulty ==
    \/ Next
    \/ WriteFaultIteration

\* a run whose writer may fail
FaultSpec == Init /\ [][NextFaulty]_vars

\* main() runs to its return: every step that can be taken eventually is
FairSpec == Spec /\ WF_vars(Next)


(***************************************************************************)
(* Vocabulary of the properties.                                           *)
(* recordsSeen is count, recordsAccepted is acceptedParticles, and         *)
(* decodeErrors is errorCount.                                             *)
(***************************************************************************)
\* the k-th slot the reader hands out: past the end of the stream reads fail
SlotAt(k) == IF k <= Len(stream) THEN stream[k] ELSE Unreadable

Failed(k) == SlotAt(k).n_stat = -1

\* decode failures and successes among the first n slots
FailuresIn(n) == Cardinality({k \in 1 .. n : Failed(k)})
SuccessesIn(n) == Cardinality({k \in 1 .. n : ~Failed(k)})

\* the calls of one library function made so far
CallsOf(name) == Occurrences(calls, name)

\* the pass is over: the loop has been left and the run is finalizing or closed
PassOver == pc \in {"SetTotal", "UpdateHeader", "DestroySrc", "DestroyDest"}
               \/ (pc = "Done" /\ setupError = "none")

\* the loop was left by the error-budget abort
Aborted == PassOver /\ errorCount > errorThreshold

(***************************************************************************)
(* C1: in every state of a pass (while streaming, after normal completion  *)
(* and after an error-budget abort) acceptedParticles <= count; neither    *)
(* counter ever decreases from one step to the next; and both are zero     *)
(* when the pass starts.                                                   *)
(***************************************************************************)
C1_CountersOrdered ==
    /\ [](acceptedParticles <= count /\ acceptedHistories <= count)
    /\ [](pc = "GetMaxParticles" => count = 0 /\ acceptedParticles = 0)
    /\ [][/\ count' >= count
          /\ acceptedParticles' >= acceptedParticles
          /\ acceptedHistories' >= acceptedHistories]_vars

\* an aborted pass that had accepted some, but not all, of the records it saw
C1_Witness ==
    /\ Aborted
    /\ pc = "Done"
    /\ acceptedParticles >= 1
    /\ acceptedParticles < count

(***************************************************************************)
(* C2: with threshold T, the pass stops at the (T+1)-th decode failure of  *)
(* the stream: in every state in which errorCount has passed T the loop    *)
(* has been left, the reader stands at that failure, no get_particle or    *)
(* write_particle call has been made beyond it, and count,                 *)
(* acceptedParticles and errorCount are those accumulated from the slots   *)
(* up to and including it.                                                 *)
(***************************************************************************)
C2_StopsAtBudget ==
    /\ errorCount <= errorThreshold + 1
    /\ errorCount > errorThreshold =>
          /\ pc # "Loop"
          /\ Failed(srcPos)
          /\ FailuresIn(srcPos) = errorThreshold + 1
          /\ CallsOf("get_particle") = srcPos
          /\ errorCount = FailuresIn(srcPos)
          /\ count = SuccessesIn(srcPos)
          /\ acceptedParticles = Len(output)
          /\ CallsOf("write_particle") = Len(output)
          /\ Len(output) <= SuccessesIn(srcPos)

\* T = 1, two failures in a row, and a readable record behind them left unread
C2_Witness ==
    /\ pc = "Done"
    /\ errorThreshold = 1
    /\ Len(stream) = 3
    /\ Failed(1) /\ Failed(2) /\ ~Failed(3)
    /\ expectedRecords >= 3
    /\ srcPos = 2
    /\ count = 0
    /\ errorCount = 2


(***************************************************************************)
(* C3: every run that enters the loop eventually leaves it for the         *)
(* finalization and then ends with both sources destroyed, after a normal  *)
(* end of the loop and after an error-budget abort alike; once             *)
(* iaea_set_total_original_particles has been called the output header's   *)
(* original-particle count is acceptedParticles, the number of records     *)
(* written so far; and no source is destroyed before that call and         *)
(* iaea_update_header have been made.                                      *)
(***************************************************************************)
C3_FinalizesThenCloses ==
    /\ (pc = "Loop") ~> (pc = "SetTotal")
    /\ (pc = "SetTotal") ~> (pc = "Done" /\ srcDestroys = 1 /\ destDestroys = 1)
    /\ [](PassOver /\ pc # "SetTotal" =>
             /\ destHeader.orig_histories = acceptedParticles
             /\ acceptedParticles = CallsOf("write_particle")
             /\ CallsOf("set_total_original_particles") = 1)
    /\ [](pc \in {"Loop", "SetTotal", "UpdateHeader"} =>
             srcDestroys = 0 /\ destDestroys = 0)
    /\ [](setupError = "none" /\ srcDestroys + destDestroys > 0 =>
             /\ headerUpdate # "none"
             /\ CallsOf("update_header") = 1)

\* an aborted run, closed, whose header declares the one record it had written
\* out of the two it had processed
C3_Witness ==
    /\ Aborted
    /\ pc = "Done"
    /\ count = 2
    /\ Len(output) = 1
    /\ destHeader.orig_histories = 1
    /\ headerUpdate = "ok"
    /\ srcDestroys = 1
    /\ destDestroys = 1


(***************************************************************************)
(* C4: when a setup step fails (the argument check, opening the input,     *)
(* the file size / byte order check, opening the output, copying the       *)
(* header) the run is over at once: main() has returned 1 and no           *)
(* get_particle, write_particle, set_total_original_particles or           *)
(* update_header call is ever made in that run.                            *)
(***************************************************************************)
C4_SetupFailureEndsRun ==
    setupError # "none" =>
        /\ pc = "Done"
        /\ exitCode = 1
        /\ CallsOf("get_max_particles") = 0
        /\ CallsOf("get_particle") = 0
        /\ CallsOf("write_particle") = 0
        /\ CallsOf("set_total_original_particles") = 0
        /\ CallsOf("update_header") = 0
        /\ srcPos = 0
        /\ headerUpdate = "none"
        /\ destHeader.orig_histories = 0

\* the header copy, the last setup step, has failed on a stream with records
C4_Witness ==
    /\ setupError = "CopyHeader"
    /\ Len(stream) >= 2
    /\ inHeader.max_particles >= 2
    /\ pc = "Done"

(***************************************************************************)
(* C10: a source is destroyed only if it was opened and never twice; and   *)
(* when the run has ended, on any path (a failed setup step, a normal end, *)
(* an error-budget abort, a failed header update), every source that was   *)
(* opened has been destroyed exactly once.                                 *)
(***************************************************************************)
C10_HandlesClosedOnce ==
    /\ srcDestroys <= (IF srcOpened THEN 1 ELSE 0)
    /\ destDestroys <= (IF destOpened THEN 1 ELSE 0)
    /\ pc = "Done" =>
          /\ srcDestroys = (IF srcOpened THEN 1 ELSE 0)
          /\ destDestroys = (IF destOpened THEN 1 ELSE 0)

\* the run ended on the header-copy failure with both sources open
C10_Witness ==
    /\ pc = "Done"
    /\ setupError = "CopyHeader"
    /\ srcOpened
    /\ destOpened
    /\ srcDestroys = 1
    /\ destDestroys = 1


(***************************************************************************)
(* The geometry predicate as the properties state it.                      *)
(***************************************************************************)
\* lo <= a <= hi for a fraction a and integers lo, hi
Within(a, lo, hi) == lo * a[2] <= a[1] /\ a[1] <= hi * a[2]

NonPositive(a) == a[1] * a[2] <= 0

AtOrBeyondPlane(p) == p.z[1] >= 100 * p.z[2]

\* x + u * (plane - z) / w and y + v * (plane - z) / w, plane = 100
ClaimNewX(p) == FAdd(p.x, FDiv(FMul(p.u, FSub(Whole(100), p.z)), p.w))
ClaimNewY(p) == FAdd(p.y, FDiv(FMul(p.v, FSub(Whole(100), p.z)), p.w))

Satisfies(p) ==
    /\ ~NonPositive(p.w)
    /\ IF AtOrBeyondPlane(p)
       THEN Within(p.x, -7, 7) /\ Within(p.y, -7, 7)
       ELSE Within(ClaimNewX(p), -7, 7) /\ Within(ClaimNewY(p), -7, 7)

\* the readable slots among the first n that satisfy the predicate, in order
RECURSIVE PassingIn(_)
PassingIn(n) ==
    IF n = 0 THEN <<>>
    ELSE IF ~Failed(n) /\ Satisfies(SlotAt(n))
         THEN Append(PassingIn(n - 1), SlotAt(n))
         ELSE PassingIn(n - 1)

\* this step is an iteration of the loop that decodes the next slot
DecodesNext == pc = "Loop" /\ srcPos' = srcPos + 1 /\ ~Failed(srcPos + 1)

\* the slot that such a step decodes
NextSlot == SlotAt(srcPos + 1)

Rejects ==
    /\ output' = output
    /\ acceptedParticles' = acceptedParticles
    /\ acceptedHistories' = acceptedHistories
    /\ calls' = Append(calls, "get_particle")

Accepts ==
    /\ output' = Append(output, NextSlot)
    /\ acceptedParticles' = acceptedParticles + 1
    /\ acceptedHistories' = acceptedHistories + 1
    /\ calls' = calls \o <<"get_particle", "write_particle">>

TheScenario == <<PInside, Unreadable, PBeyond, POutside, PBackward>>

(***************************************************************************)
(* C5: as long as the error budget is not exceeded, the output is exactly  *)
(* the readable slots read so far that satisfy the geometry predicate, in  *)
(* input order; count is the number of slots decoded, acceptedParticles    *)
(* the number written, errorCount the number of failed reads; and when     *)
(* the pass is over every slot up to the iteration bound has been read.    *)
(* On the five-record scenario (1 and 3 accepted, 2 unreadable, threshold  *)
(* 10) the output is <<1, 3>> with count 4, acceptedParticles 2 and        *)
(* errorCount 1.                                                           *)
(***************************************************************************)
C5_OutputIsFilteredInput ==
    /\ (pc = "Loop" \/ PassOver) /\ errorCount <= errorThreshold =>
          /\ output = PassingIn(srcPos)
          /\ count = SuccessesIn(srcPos)
          /\ errorCount = FailuresIn(srcPos)
          /\ acceptedParticles = Len(output)
          /\ CallsOf("write_particle") = Len(output)
          /\ CallsOf("get_particle") = srcPos
    /\ PassOver /\ errorCount <= errorThreshold =>
          srcPos = (IF expectedRecords > 0 THEN expectedRecords ELSE 0)
    /\ PassOver /\ stream = TheScenario /\ errorThreshold = 10 =>
          /\ output = <<PInside, PBeyond>>
          /\ count = 4
          /\ acceptedParticles = 2
          /\ errorCount = 1

\* the scenario, run to its end
C5_Witness ==
    /\ pc = "Done"
    /\ exitCode = 0
    /\ stream = TheScenario
    /\ errorThreshold = 10
    /\ srcPos = 5
    /\ output = <<PInside, PBeyond>>

(***************************************************************************)
(* C6: a decoded record with w <= 0 is rejected whatever its position and  *)
(* its u, v: it is not written, acceptedParticles does not change, and it  *)
(* is counted in count.                                                    *)
(***************************************************************************)
C6_NonForwardRejected ==
    [][DecodesNext /\ NonPositive(NextSlot.w) =>
          Rejects /\ count' = count + 1]_vars

\* a record at rest (w = 0) on the plane, in the middle of the rectangle,
\* has been processed and not written
C6_Witness ==
    /\ Len(stream) = 1
    /\ srcPos = 1
    /\ stream[1].w = Whole(0)
    /\ stream[1].z = Whole(100)
    /\ stream[1].x = Whole(0)
    /\ stream[1].y = Whole(0)
    /\ count = 1
    /\ output = <<>>

(***************************************************************************)
(* C7: a decoded record with w > 0 and z >= plane is not projected: it is  *)
(* accepted iff its raw x is in [xMin, xMax] and its raw y in [yMin,       *)
(* yMax], whatever u, v and z - plane are.                                 *)
(***************************************************************************)
C7_BeyondPlaneRawTest ==
    [][DecodesNext /\ ~NonPositive(NextSlot.w) /\ AtOrBeyondPlane(NextSlot) =>
          IF Within(NextSlot.x, -7, 7) /\ Within(NextSlot.y, -7, 7)
          THEN Accepts
          ELSE Rejects]_vars

\* a record beyond the plane was accepted on its raw position although its
\* backward projection lies outside the rectangle
C7_Witness ==
    /\ Len(stream) = 1
    /\ srcPos = 1
    /\ stream[1].z = Whole(150)
    /\ stream[1].x = Whole(2)
    /\ stream[1].u = Whole(1)
    /\ stream[1].w = Whole(1)
    /\ output = <<stream[1]>>

(***************************************************************************)
(* C8: a decoded record with w > 0 and z < plane is accepted iff           *)
(* newX = x + u*(plane - z)/w is in [xMin, xMax] and                       *)
(* newY = y + v*(plane - z)/w is in [yMin, yMax], bounds included; with    *)
(* plane = 100 and bounds [-7,7]x[-7,7] the record z = 50, w = 1, u = 0.1, *)
(* v = 0, x = 0, y = 0 is accepted and the same record with u = 1 is       *)
(* rejected.                                                               *)
(***************************************************************************)
C8_ProjectedInclusiveTest ==
    /\ [][DecodesNext /\ ~NonPositive(NextSlot.w) /\ ~AtOrBeyondPlane(NextSlot) =>
             IF /\ Within(ClaimNewX(NextSlot), -7, 7)
                /\ Within(ClaimNewY(NextSlot), -7, 7)
             THEN Accepts
             ELSE Rejects]_vars
    /\ [][DecodesNext /\ NextSlot = PInside => Accepts]_vars
    /\ [][DecodesNext /\ NextSlot = [PInside EXCEPT !.u = Whole(1)] => Rejects]_vars

\* a record projected exactly onto xMax (2 + 0.1 * 50 = 7) has been accepted
C8_Witness ==
    /\ Len(stream) = 1
    /\ srcPos = 1
    /\ stream[1].z = Whole(50)
    /\ stream[1].w = Whole(1)
    /\ stream[1].x = Whole(2)
    /\ stream[1].u = Frac(1, 10)
    /\ stream[1].y = Whole(0)
    /\ stream[1].v = Whole(0)
    /\ output = <<stream[1]>>

(***************************************************************************)
(* C9: the record handed to the writer is, field by field, the record the  *)
(* reader returned in that iteration: the projected newX, newY are never   *)
(* written, the locals still hold the record as read after the filter has  *)
(* been evaluated, and the records written before are left as they are.    *)
(***************************************************************************)
C9_WrittenAsRead ==
    /\ [][pc = "Loop" /\ output' # output =>
             /\ Len(output') = Len(output) + 1
             /\ SubSeq(output', 1, Len(output)) = output
             /\ output'[Len(output')] = SlotAt(srcPos')
             /\ output'[Len(output')] = cur']_vars
    /\ [][DecodesNext => cur' = NextSlot]_vars

\* a record whose projection (5, 0) differs from its position (0, 0) is in
\* the output with its position as read
C9_Witness ==
    /\ Len(stream) = 1
    /\ srcPos = 1
    /\ stream[1] = PInside
    /\ Projected(PInside)[1] # PInside.x
    /\ output = <<PInside>>
    /\ cur = PInside


(***************************************************************************)
(* C11: main() returns 0 whenever the run has got to the end of the pass,  *)
(* after an error-budget abort as after a normal end of the loop, and 1    *)
(* whenever opening the input, checking its size and byte order, opening   *)
(* the output or copying the header has failed; it returns nothing else.   *)
(***************************************************************************)
C11_ExitCodes ==
    /\ pc # "Done" /\ setupError = "none" => exitCode = -1
    /\ pc = "Done" /\ setupError = "none" =>
          /\ exitCode = 0
          /\ CallsOf("update_header") = 1
    /\ setupError \in {"OpenInput", "CheckFileSize", "OpenOutput", "CopyHeader"} =>
          exitCode = 1
    /\ pc = "Done" => exitCode \in {0, 1}

\* an aborted pass with partial output that has returned 0
C11_Witness ==
    /\ pc = "Done"
    /\ errorCount > errorThreshold
    /\ Len(output) >= 1
    /\ exitCode = 0


(***************************************************************************)
(* C12: the get_particle calls of a pass never exceed the declared         *)
(* particle count minus one when that count is positive, and there are     *)
(* none when it is <= 0.  So when the header declares exactly one record   *)
(* more than the stream holds, the pass never reads past the end of the    *)
(* stream, errorCount counts unreadable slots of the stream only (the      *)
(* missing record adds nothing), and a pass that is not aborted has read   *)
(* every slot of the stream.                                               *)
(***************************************************************************)
\* unreadable slots of the stream itself among its first n
CorruptIn(n) == Cardinality({k \in 1 .. n : k <= Len(stream) /\ stream[k].n_stat = -1})

C12_OneFewerThanDeclared ==
    /\ CallsOf("get_particle") = srcPos
    /\ inHeader.max_particles > 0 => srcPos <= inHeader.max_particles - 1
    /\ inHeader.max_particles <= 0 => srcPos = 0
    /\ inHeader.max_particles = Len(stream) + 1 =>
          /\ srcPos <= Len(stream)
          /\ errorCount = CorruptIn(srcPos)
          /\ PassOver /\ ~Aborted => srcPos = Len(stream)
          /\ PassOver /\ CorruptIn(Len(stream)) = 0 =>
                /\ errorCount = 0
                /\ count = Len(stream)

\* three readable records under a header that declares four: all three read,
\* no error counted
C12_Witness ==
    /\ pc = "Done"
    /\ exitCode = 0
    /\ Len(stream) = 3
    /\ inHeader.max_particles = 4
    /\ CorruptIn(3) = 0
    /\ srcPos = 3
    /\ count = 3
    /\ errorCount = 0


(***************************************************************************)
(* C13, as stated: at every point of a pass count equals the number of     *)
(* get_particle calls made so far in that pass, whether each read          *)
(* succeeded or failed.                                                    *)
(***************************************************************************)
C13_CountIsAttempts ==
    pc = "Loop" \/ PassOver => count = CallsOf("get_particle")

(***************************************************************************)
(* C13, amended: at every point of a pass count equals the number of       *)
(* get_particle calls made so far that succeeded; a failed read is counted *)
(* in errorCount only, so that count + errorCount is the number of calls.  *)
(***************************************************************************)
C13_CountIsDecoded ==
    pc = "Loop" \/ PassOver =>
        /\ count = Cardinality({k \in 1 .. CallsOf("get_particle") : ~Failed(k)})
        /\ count + errorCount = CallsOf("get_particle")

\* a pass that has made three reads, one of which failed
C13_Witness ==
    /\ pc = "Loop"
    /\ CallsOf("get_particle") = 3
    /\ errorCount = 1
    /\ count = 2


(***************************************************************************)
(* C14: a second run on the same input stream, with the same plane,        *)
(* bounds and error threshold, ends its pass with the same records in the  *)
(* output, in the same order, none twice and none missing, and with the    *)
(* same count, acceptedParticles and errorCount as the first.              *)
(***************************************************************************)
C14_SecondRunSame ==
    firstRun.done /\ PassOver =>
        /\ output = firstRun.output
        /\ count = firstRun.count
        /\ acceptedParticles = firstRun.accepted
        /\ errorCount = firstRun.errors

\* a second run over a stream with failures and accepted records has ended
C14_Witness ==
    /\ firstRun.done
    /\ pc = "Done"
    /\ exitCode = 0
    /\ errorCount >= 1
    /\ Len(output) >= 2
    /\ output = firstRun.output


(***************************************************************************)
(* C15: a fault of the writer in write_particle stops the pass at once:    *)
(* nothing is read or written after it, acceptedParticles is not           *)
(* incremented for the record that was not stored, and so                  *)
(* acceptedParticles is always the number of records in the output.        *)
(***************************************************************************)
C15_WriteFaultStopsPass ==
    /\ pc = "Loop" \/ PassOver => acceptedParticles = Len(output)
    /\ writeFaults # <<>> =>
          /\ pc # "Loop"
          /\ Len(writeFaults) = 1
          /\ srcPos = writeFaults[1]


(***************************************************************************)
(* C16: a failed read changes neither count nor acceptedParticles nor the  *)
(* output, it adds one to errorCount, and the loop goes on after it        *)
(* exactly when errorCount is still <= ERROR_THRESHOLD; so errorCount      *)
(* never passes ERROR_THRESHOLD + 1, and a pass that ends with errorCount  *)
(* <= ERROR_THRESHOLD has read and filtered every slot up to the           *)
(* iteration bound, wherever the failures were.                            *)
(***************************************************************************)
C16_FailuresWithinBudgetGoOn ==
    /\ [][pc = "Loop" /\ srcPos' = srcPos + 1 /\ Failed(srcPos + 1) =>
             /\ count' = count
             /\ acceptedParticles' = acceptedParticles
             /\ acceptedHistories' = acceptedHistories
             /\ output' = output
             /\ errorCount' = errorCount + 1
             /\ (pc' = "Loop") = (errorCount + 1 <= errorThreshold)
             /\ (pc' = "SetTotal") = (errorCount + 1 = errorThreshold + 1)]_vars
    /\ [](errorCount <= errorThreshold + 1)
    /\ [](PassOver /\ errorCount <= errorThreshold =>
             /\ srcPos = (IF expectedRecords > 0 THEN expectedRecords ELSE 0)
             /\ output = PassingIn(srcPos))

\* threshold 1 and exactly one failure, at the front: the two records behind
\* it were read and written
C16_Witness ==
    /\ pc = "Done"
    /\ errorThreshold = 1
    /\ Len(stream) = 3
    /\ Failed(1) /\ ~Failed(2) /\ ~Failed(3)
    /\ srcPos = 3
    /\ errorCount = 1
    /\ Len(output) = 2


(***************************************************************************)
(* C17: the extra-data counts of the output header are set to (0, 0) after *)
(* the header copy has succeeded and before the first write; once set they *)
(* never change, so every record is written under a header that stores no  *)
(* extra floats and no extra integers, whatever the input header declared. *)
(***************************************************************************)
C17_ExtraDataDisabled ==
    /\ [](pc = "SetExtraNumbers" =>
             /\ CallsOf("copy_header") = 1
             /\ CallsOf("write_particle") = 0
             /\ output = <<>>
             /\ destHeader.extra_floats = inHeader.extra_floats
             /\ destHeader.extra_ints = inHeader.extra_ints)
    /\ [](CallsOf("set_extra_numbers") > 0 =>
             /\ CallsOf("set_extra_numbers") = 1
             /\ destHeader.extra_floats = 0
             /\ destHeader.extra_ints = 0)
    /\ [][Len(output') > Len(output) =>
             /\ CallsOf("set_extra_numbers") = 1
             /\ destHeader.extra_floats = 0 /\ destHeader.extra_ints = 0
             /\ destHeader'.extra_floats = 0 /\ destHeader'.extra_ints = 0]_vars

\* a finished run that wrote records, on an input whose header declares
\* extra data
C17_Witness ==
    /\ pc = "Done"
    /\ exitCode = 0
    /\ inHeader.extra_floats = 2
    /\ inHeader.extra_ints = 1
    /\ Len(output) >= 2
    /\ destHeader.extra_floats = 0
    /\ destHeader.extra_ints = 0

(***************************************************************************)
(* C18: a failure of iaea_update_header is only reported: the step changes *)
(* no record of the output, nothing after it does, and the run goes on to  *)
(* destroy both sources once each and return 0.                            *)
(***************************************************************************)
C18_UpdateFailureOnlyReported ==
    /\ [][pc = "UpdateHeader" => output' = output /\ pc' = "DestroySrc"]_vars
    /\ [][headerUpdate = "failed" => output' = output]_vars
    /\ [](headerUpdate = "failed" => output = PassingIn(srcPos))
    /\ (headerUpdate = "failed") ~>
          (pc = "Done" /\ headerUpdate = "failed" /\ exitCode = 0
           /\ srcDestroys = 1 /\ destDestroys = 1)

\* a closed run whose header update failed, with its records in the output
C18_Witness ==
    /\ pc = "Done"
    /\ headerUpdate = "failed"
    /\ exitCode = 0
    /\ srcDestroys = 1 /\ destDestroys = 1
    /\ Len(output) >= 1
    /\ output = PassingIn(srcPos)

(***************************************************************************)
(* C19: every pass ends: the loop makes at most expectedRecords read       *)
(* attempts, count + errorCount is the number of iterations begun (one     *)
(* read attempt each), and from the loop the run always gets to its end    *)
(* with both sources destroyed.                                            *)
(***************************************************************************)
C19_PassTerminates ==
    /\ [](pc = "Loop" \/ PassOver =>
             /\ count + errorCount = srcPos
             /\ srcPos = CallsOf("get_particle")
             /\ srcPos = i + (IF errorCount > errorThreshold THEN 1 ELSE 0)
             /\ srcPos <= (IF expectedRecords > 0 THEN expectedRecords ELSE 0))
    /\ (pc = "Loop") ~> (pc = "Done" /\ srcDestroys = 1 /\ destDestroys = 1)

\* a pass that used the whole bound, with successes and a failure in it
C19_Witness ==
    /\ pc = "Done"
    /\ setupError = "none"
    /\ expectedRecords = 3
    /\ srcPos = 3
    /\ count = 2
    /\ errorCount = 1

=============================================================================
